---- MODULE Spec2Model ----
(***************************************************************************)
(* The named-pipe chatroom of src/chatroom.c as a state machine.           *)
(*                                                                         *)
(* A session is one run of chatroom(argc, argv).  It owns up to three      *)
(* kinds of process: the main process (join steps, then the input loop),   *)
(* the reader child forked at line 111, and one short-lived writer child   *)
(* per directory entry of a broadcast (line 222).  Every system call of    *)
(* the source is one atomic step; the kernel objects the calls act on (the *)
(* room directory, the FIFO inodes with their reader/writer counts and     *)
(* buffers, pending signals) are part of the state.                        *)
(***************************************************************************)
EXTENDS Integers, Sequences, FiniteSets, TLC

(* ------------------------------ bounds -------------------------------- *)
NumSessions == 3
MaxEvents == 4
CrowdSize == 257

(* ----------------------------- constants ------------------------------ *)
\* line 202: pid_t writer_pids[256]
WriterPidsCapacity == 256

Sessions == 1 .. NumSessions
NameOrder == <<"alice", "bob", "carol">>
UserNames == {NameOrder[i] : i \in 1 .. Len(NameOrder)}
RoomName == "general"
InputLines == {"hello\n", "\n"}

NoInode == 0
Inodes == Sessions

(* ----------------------------- processes ------------------------------ *)
Main(s) == <<"main", s>>
Reader(s) == <<"reader", s>>
Worker(s, e) == <<"worker", s, e>>

Mains == {Main(s) : s \in Sessions}
ReaderProcs == {Reader(s) : s \in Sessions}
WorkerProcs == {Worker(s, e) : s \in Sessions, e \in UserNames}
Procs == Mains \cup ReaderProcs \cup WorkerProcs

Kind(p) == p[1]
SessionOf(p) == p[2]

VARIABLES
  pc,           \* position of every process
  fd,           \* the FIFO inode a reader or writer child holds open (NoInode: none)
  name,         \* argv[2] of each session ("" before the session starts)
  roomExists,   \* /tmp/chatroom-<roomname> exists
  dir,          \* the room directory: entry name -> inode (NoInode: no entry)
  buf,          \* the bytes buffered in each FIFO, as a sequence of written lines
  reader_pid,   \* the main process's copy of the global reader_pid
  writer_pids,  \* writer_pids[0 .. num_writers-1] still to be waited for
  todo,         \* directory entries the current readdir loop has not returned yet
  msg,          \* the formatted line of the current broadcast
  sent,         \* number of broadcasts a session has started
  out,          \* the byte stream each reader has read from its FIFO
  nev,          \* inputs of the environment so far: sessions started, lines and
                \* ends of input, signals, failing system calls
  att,          \* history: readers attached without interruption since the broadcast began
  missed,       \* history: deliveries whose write-open found no reader attached
  typed,        \* history: the line, as typed, of a session's current broadcast
  mbox,         \* history: the inode a session's mailbox path named when it joined
  log,          \* history: what has happened so far, as a set of event records
  crowd,        \* entries of the room directory of participants not followed one by one
  ctodo,        \* how many of them the current readdir loop has not returned yet
  num_writers   \* num_writers of the current broadcast

vars == <<pc, fd, name, roomExists, dir, buf, reader_pid, writer_pids, todo, msg,
          sent, out, nev, att, missed, typed, mbox, log,
          crowd, ctodo, num_writers>>

(* --------------------------- process states --------------------------- *)
CleanupPcs == {"cl_kill", "cl_unlink", "cl_exit"}
MainExited == {"exit0", "exit1"}
HandlersInstalled == {"fork", "store", "prompt", "opendir", "readdir", "wait"} \cup CleanupPcs
ReaderRunning == {"open", "opening", "drain", "eof"}
ReaderGone == {"none", "dead"}
WorkerRunning == {"open", "write", "close"}
WorkerGone == {"none", "enxio", "sigpipe", "done", "dead"}

Alive(p) ==
  CASE Kind(p) = "main" -> pc[p] \in HandlersInstalled
    [] Kind(p) = "reader" -> pc[p] \in ReaderRunning \cup CleanupPcs
    [] OTHER -> pc[p] \in WorkerRunning \cup CleanupPcs

(* ------------------------------ the FIFO ------------------------------ *)
Readers(i) == {p \in ReaderProcs : fd[p] = i}
Writers(i) == {p \in WorkerProcs : fd[p] = i}

\* The kernel frees a pipe's buffer when the last descriptor on it is closed.
Released(b, f) ==
  [i \in Inodes |-> IF \A p \in Procs : f[p] # i THEN <<>> ELSE b[i]]

(* --------------------------- pure functions --------------------------- *)
\* lines 174-176: strip one trailing newline
StripNewline(line) ==
  IF Len(line) > 0 /\ SubSeq(line, Len(line), Len(line)) = "\n"
  THEN SubSeq(line, 1, Len(line) - 1)
  ELSE line

\* line 184: snprintf(msg, ..., "[%s] %s: %s\n", roomname, username, input)
Format_NoPrefix(roomname, username, body) == body \o "\n"
Format(roomname, username, body) ==
  "[" \o roomname \o "] " \o username \o ": " \o body \o "\n"

\* lines 87 and 97: ret == -1 && errno != EEXIST
JoinCallFails_Strict(res) == res # "OK"
JoinCallFails_Lenient(res) == FALSE
JoinCallFails(res) == res # "OK" /\ res # "EEXIST"

\* line 207: the "." and ".." pseudo-entries
IsDot(e) == e = "." \/ e = ".."

\* line 211: strcmp(entry->d_name, username) == 0
IsSelf_Never(e, username) == FALSE
IsSelf(e, username) == e = username

\* readdir's view of the room directory
Listing == {".", ".."} \cup {n \in UserNames : dir[n] # NoInode}

\* line 235: open(target_pipe, O_WRONLY | O_NONBLOCK) succeeds only on an existing
\* FIFO that some process holds open for reading (ENOENT / ENXIO otherwise)
OpenWriteOk_Always(e) == dir[e] # NoInode
OpenWriteOk_AllOrNothing(e) ==
  /\ dir[e] # NoInode
  /\ \A n \in UserNames : dir[n] # NoInode => Readers(dir[n]) # {}
OpenWriteOk(e) == dir[e] # NoInode /\ Readers(dir[e]) # {}

\* line 235: with O_NONBLOCK the write-open never waits for a reader
OpenBlocks(e) == FALSE

\* the value of the global reader_pid in each process: the main process's own copy,
\* 0 in the reader child (fork's return value there), the parent's copy in a writer
\* child (forked after the store of line 111)
ReaderPidOf(p) ==
  CASE Kind(p) = "main" -> reader_pid[SessionOf(p)]
    [] Kind(p) = "reader" -> 0
    [] OTHER -> reader_pid[SessionOf(p)]

(* ------------------------------ history ------------------------------- *)
\* A reader is attached to its session's mailbox: it is blocked in the read-open of,
\* or draining, the FIFO its path names, and is the only reader on that FIFO.
Attached(b) ==
  /\ pc[Reader(b)] \in {"opening", "drain"}
  /\ fd[Reader(b)] # NoInode
  /\ fd[Reader(b)] = dir[name[b]]
  /\ Readers(fd[Reader(b)]) = {Reader(b)}

AttKeep == [s \in Sessions |-> {b \in att[s] : Attached(b)'}]

(* ------------------------------- Init --------------------------------- *)
Init ==
  /\ pc = [p \in Procs |-> IF Kind(p) = "main" THEN "init" ELSE "none"]
  /\ fd = [p \in Procs |-> NoInode]
  /\ name = [s \in Sessions |-> ""]
  /\ roomExists = FALSE
  /\ dir = [n \in UserNames |-> NoInode]
  /\ buf = [i \in Inodes |-> <<>>]
  /\ reader_pid = [s \in Sessions |-> -1]
  /\ writer_pids = [s \in Sessions |-> <<>>]
  /\ todo = [s \in Sessions |-> {}]
  /\ msg = [s \in Sessions |-> ""]
  /\ sent = [s \in Sessions |-> 0]
  /\ out = [s \in Sessions |-> <<>>]
  /\ nev = 0
  /\ att = [s \in Sessions |-> {}]
  /\ missed = {}
  /\ typed = [s \in Sessions |-> ""]
  /\ mbox = [s \in Sessions |-> NoInode]
  /\ log = {}
  /\ crowd = 0
  /\ ctodo = [s \in Sessions |-> 0]
  /\ num_writers = [s \in Sessions |-> 0]

(* --------------------------- joining a room --------------------------- *)
\* The results a creation call can have: what the file system state dictates, or
\* a failure for another reason (permission, storage) while faults may be injected.
CreateResults(exists, used) ==
  {IF exists THEN "EEXIST" ELSE "OK"} \cup (IF used < MaxEvents THEN {"EACCES"} ELSE {})

\* Sessions and user names are interchangeable: sessions start in the order of
\* their numbers, and a session takes a name already taken or the first one never
\* taken.
Started(s) == pc[Main(s)] # "init"
MayStart(s) == \A r \in Sessions : r < s => Started(r)
NameChoices ==
  {NameOrder[i] : i \in 1 .. Len(NameOrder)} \cap
  ({name[r] : r \in Sessions} \cup
   {NameOrder[i] : i \in {j \in 1 .. Len(NameOrder) :
                            \A k \in 1 .. (j - 1) : \E r \in Sessions : name[r] = NameOrder[k]}})

\* lines 75-78: argc < 3
Usage(s) ==
  /\ pc[Main(s)] = "init"
  /\ MayStart(s)
  /\ nev < MaxEvents
  /\ nev' = nev + 1
  /\ pc' = [pc EXCEPT ![Main(s)] = "exit1"]
  /\ UNCHANGED <<fd, name, roomExists, dir, buf, reader_pid, writer_pids, todo, msg,
                 sent, out, missed, typed, mbox, log>>
  /\ UNCHANGED <<crowd, ctodo, num_writers>>
  /\ att' = AttKeep

\* lines 79-90: take the names, mkdir the room
Mkdir(s) ==
  /\ pc[Main(s)] = "init"
  /\ MayStart(s)
  /\ nev < MaxEvents
  /\ \E u \in NameChoices, res \in CreateResults(roomExists, nev + 1) :
       /\ name' = [name EXCEPT ![s] = u]
       /\ nev' = IF res = "EACCES" THEN nev + 2 ELSE nev + 1
       /\ IF JoinCallFails(res)
          THEN /\ pc' = [pc EXCEPT ![Main(s)] = "exit1"]
               /\ UNCHANGED roomExists
          ELSE /\ pc' = [pc EXCEPT ![Main(s)] = "mkfifo"]
               /\ roomExists' = TRUE
  /\ UNCHANGED <<fd, dir, buf, reader_pid, writer_pids, todo, msg, sent, out,
                 missed, typed, mbox, log>>
  /\ UNCHANGED <<crowd, ctodo, num_writers>>
  /\ att' = AttKeep

\* lines 95-106: mkfifo the mailbox, install the handlers
Mkfifo(s) ==
  /\ pc[Main(s)] = "mkfifo"
  /\ \E res \in CreateResults(dir[name[s]] # NoInode, nev) :
       /\ nev' = IF res = "EACCES" THEN nev + 1 ELSE nev
       /\ IF JoinCallFails(res)
          THEN /\ pc' = [pc EXCEPT ![Main(s)] = "exit1"]
               /\ UNCHANGED <<dir, mbox>>
          ELSE /\ pc' = [pc EXCEPT ![Main(s)] = "fork"]
               /\ dir' = IF res = "OK" THEN [dir EXCEPT ![name[s]] = s] ELSE dir
               /\ mbox' = [mbox EXCEPT ![s] = dir'[name[s]]]
  /\ UNCHANGED <<fd, name, roomExists, buf, reader_pid, writer_pids, todo, msg, sent,
                 out, missed, typed, log>>
  /\ UNCHANGED <<crowd, ctodo, num_writers>>
  /\ att' = AttKeep

\* line 111, the fork itself: the child starts at line 125 with reader_pid = 0
ForkReader(s) ==
  /\ pc[Main(s)] = "fork"
  /\ pc' = [pc EXCEPT ![Main(s)] = "store", ![Reader(s)] = "open"]
  /\ UNCHANGED <<fd, name, roomExists, dir, buf, reader_pid, writer_pids, todo, msg,
                 sent, out, nev, missed, typed, mbox, log>>
  /\ UNCHANGED <<crowd, ctodo, num_writers>>
  /\ att' = AttKeep

\* lines 111-115 when fork fails: reader_pid = -1, return FAILURE
ForkReaderFails(s) ==
  /\ pc[Main(s)] = "fork"
  /\ nev < MaxEvents
  /\ nev' = nev + 1
  /\ reader_pid' = [reader_pid EXCEPT ![s] = -1]
  /\ pc' = [pc EXCEPT ![Main(s)] = "exit1"]
  /\ UNCHANGED <<fd, name, roomExists, dir, buf, writer_pids, todo, msg, sent, out, missed, typed, mbox, log>>
  /\ UNCHANGED <<crowd, ctodo, num_writers>>
  /\ att' = AttKeep

\* line 111, the store of fork's return value into the global
StorePid(s) ==
  /\ pc[Main(s)] = "store"
  /\ reader_pid' = [reader_pid EXCEPT ![s] = s]
  /\ pc' = [pc EXCEPT ![Main(s)] = "prompt"]
  /\ UNCHANGED <<fd, name, roomExists, dir, buf, writer_pids, todo, msg, sent, out,
                 nev, missed, typed, mbox, log>>
  /\ UNCHANGED <<crowd, ctodo, num_writers>>
  /\ att' = AttKeep

\* line 97 in the sessions of other participants: the room fills up with their
\* mailbox entries
JoinCrowd ==
  /\ roomExists
  /\ crowd = 0
  /\ nev < MaxEvents
  /\ nev' = nev + 1
  /\ crowd' = CrowdSize
  /\ UNCHANGED <<pc, fd, name, roomExists, dir, buf, reader_pid, writer_pids, todo, msg,
                 sent, out, missed, typed, mbox, log, ctodo, num_writers>>
  /\ att' = AttKeep

(* --------------------------- the input loop --------------------------- *)
\* line 170: fgets returns NULL (end of input): break, then cleanup(0) of line 262
FgetsEOF(s) ==
  /\ pc[Main(s)] = "prompt"
  /\ nev < MaxEvents
  /\ nev' = nev + 1
  /\ pc' = [pc EXCEPT ![Main(s)] = "cl_kill"]
  /\ UNCHANGED <<fd, name, roomExists, dir, buf, reader_pid, writer_pids, todo, msg,
                 sent, out, missed, typed, mbox, log>>
  /\ UNCHANGED <<crowd, ctodo, num_writers>>
  /\ att' = AttKeep

\* lines 170-185: read a line, strip the newline, skip an empty line, format msg
FgetsLine(s) ==
  /\ pc[Main(s)] = "prompt"
  /\ UNCHANGED <<fd, name, roomExists, dir, buf, reader_pid, writer_pids, todo, out,
                 missed, mbox, log, crowd, ctodo, num_writers>>
  /\ \E line \in InputLines :
       IF Len(StripNewline(line)) = 0
       THEN /\ UNCHANGED <<pc, msg, sent, nev, typed>>
            /\ att' = AttKeep
       ELSE /\ nev < MaxEvents
            /\ nev' = nev + 1
            /\ msg' = [msg EXCEPT ![s] = Format(RoomName, name[s], StripNewline(line))]
            /\ typed' = [typed EXCEPT ![s] = line]
            /\ sent' = [sent EXCEPT ![s] = @ + 1]
            /\ pc' = [pc EXCEPT ![Main(s)] = "opendir"]
            /\ att' = [AttKeep EXCEPT ![s] = {b \in Sessions : Attached(b)}]

\* lines 190-203: opendir; the writer children of the previous broadcast are gone
Opendir(s) ==
  /\ pc[Main(s)] = "opendir"
  /\ todo' = [todo EXCEPT ![s] = {e \in Listing : ~IsDot(e)}]
  /\ writer_pids' = [writer_pids EXCEPT ![s] = <<>>]
  /\ pc' = [p \in Procs |->
              IF p = Main(s) THEN "readdir"
              ELSE IF Kind(p) = "worker" /\ SessionOf(p) = s THEN "none"
              ELSE pc[p]]
  /\ log' = log \cup {<<"not listed", s, sent[s], n>> : n \in {u \in UserNames : dir[u] = NoInode}}
              \cup {<<"not joined", s, sent[s], r>> :
                       r \in {q \in Sessions : pc[Main(q)] \in {"init", "mkfifo"}}}
  /\ UNCHANGED <<fd, name, roomExists, dir, buf, reader_pid, msg, sent, out, nev, missed, typed, mbox>>
  /\ ctodo' = [ctodo EXCEPT ![s] = crowd]
  /\ num_writers' = [num_writers EXCEPT ![s] = 0]
  /\ UNCHANGED crowd
  /\ att' = AttKeep

\* lines 191-194: opendir fails: break, then cleanup(0) of line 262
OpendirFails(s) ==
  /\ pc[Main(s)] = "opendir"
  /\ nev < MaxEvents
  /\ nev' = nev + 1
  /\ pc' = [pc EXCEPT ![Main(s)] = "cl_kill"]
  /\ UNCHANGED <<fd, name, roomExists, dir, buf, reader_pid, writer_pids, todo, msg,
                 sent, out, missed, typed, mbox, log>>
  /\ UNCHANGED <<crowd, ctodo, num_writers>>
  /\ att' = AttKeep

\* line 247: writer_pids[num_writers++] = writer_pid, for n pids from index i on.
\* A store at an index past the end of the array is undefined: the bytes after
\* the array are overwritten, and the process goes on or is killed.
StoreOutcomes(i, n) ==
  IF i + n <= WriterPidsCapacity THEN {"stored"} ELSE {"stored", "crash"}

\* lines 205-248, one turn of the readdir loop: the next entry, in any order; the
\* sender's own entry is skipped, any other gets a writer child whose pid is recorded
Readdir(s) ==
  /\ pc[Main(s)] = "readdir"
  /\ \E e \in todo[s] :
       /\ todo' = [todo EXCEPT ![s] = @ \ {e}]
       /\ IF IsSelf(e, name[s])
          THEN UNCHANGED <<pc, writer_pids, num_writers>>
          ELSE /\ num_writers' = [num_writers EXCEPT ![s] = @ + 1]
               /\ writer_pids' = [writer_pids EXCEPT ![s] = Append(@, e)]
               /\ \E o \in StoreOutcomes(num_writers[s], 1) :
                    pc' = [pc EXCEPT ![Worker(s, e)] = "open",
                                     ![Main(s)] = IF o = "crash" THEN "crashed" ELSE @]
  /\ UNCHANGED <<fd, name, roomExists, dir, buf, reader_pid, msg, sent, out, nev, missed, typed, mbox, log>>
  /\ UNCHANGED <<crowd, ctodo>>
  /\ att' = AttKeep

\* lines 205-248 for the entries of the other participants, taken together: each
\* gets a writer child whose pid is recorded; these children touch none of the
\* mailboxes followed here and end on their own
ReaddirCrowd(s) ==
  /\ pc[Main(s)] = "readdir"
  /\ ctodo[s] > 0
  /\ ctodo' = [ctodo EXCEPT ![s] = 0]
  /\ num_writers' = [num_writers EXCEPT ![s] = @ + ctodo[s]]
  /\ \E o \in StoreOutcomes(num_writers[s], ctodo[s]) :
       pc' = [pc EXCEPT ![Main(s)] = IF o = "crash" THEN "crashed" ELSE @]
  /\ UNCHANGED <<fd, name, roomExists, dir, buf, reader_pid, writer_pids, todo, msg,
                 sent, out, nev, missed, typed, mbox, log, crowd>>
  /\ att' = AttKeep

\* lines 222-226: the fork of a writer child fails: perror, continue
ForkWriterFails(s) ==
  /\ pc[Main(s)] = "readdir"
  /\ nev < MaxEvents
  /\ \E e \in todo[s] :
       /\ ~IsSelf(e, name[s])
       /\ todo' = [todo EXCEPT ![s] = @ \ {e}]
  /\ nev' = nev + 1
  /\ log' = log \cup {<<"fork failed", s, sent[s], e>> : e \in todo[s] \ todo'[s]}
  /\ UNCHANGED <<pc, fd, name, roomExists, dir, buf, reader_pid, writer_pids, msg,
                 sent, out, missed, typed, mbox>>
  /\ UNCHANGED <<crowd, ctodo, num_writers>>
  /\ att' = AttKeep

\* lines 205 and 249: readdir returns NULL, closedir
Closedir(s) ==
  /\ pc[Main(s)] = "readdir"
  /\ todo[s] = {}
  /\ ctodo[s] = 0
  /\ pc' = [pc EXCEPT ![Main(s)] = "wait"]
  /\ UNCHANGED <<fd, name, roomExists, dir, buf, reader_pid, writer_pids, todo, msg,
                 sent, out, nev, missed, typed, mbox, log>>
  /\ UNCHANGED <<crowd, ctodo, num_writers>>
  /\ att' = AttKeep

\* line 257: waitpid(writer_pids[i], NULL, 0) returns once that child has ended
WaitDone_NoHang(p) == TRUE
WaitDone(p) == pc[p] \in WorkerGone

Waitpid(s) ==
  /\ pc[Main(s)] = "wait"
  /\ writer_pids[s] # <<>>
  /\ WaitDone(Worker(s, Head(writer_pids[s])))
  /\ writer_pids' = [writer_pids EXCEPT ![s] = Tail(@)]
  /\ UNCHANGED <<pc, fd, name, roomExists, dir, buf, reader_pid, todo, msg, sent, out,
                 nev, missed, typed, mbox, log>>
  /\ UNCHANGED <<crowd, ctodo, num_writers>>
  /\ att' = AttKeep

\* lines 256-259 and 163: every recorded child waited for, back to the prompt
NextLine(s) ==
  /\ pc[Main(s)] = "wait"
  /\ writer_pids[s] = <<>>
  /\ pc' = [pc EXCEPT ![Main(s)] = "prompt"]
  /\ UNCHANGED <<fd, name, roomExists, dir, buf, reader_pid, writer_pids, todo, msg,
                 sent, out, nev, missed, typed, mbox, log>>
  /\ UNCHANGED <<crowd, ctodo, num_writers>>
  /\ att' = AttKeep

(* -------------------------- the writer child -------------------------- *)
\* lines 230-239: the non-blocking write-open; a success wakes a reader blocked in
\* its read-open of the same FIFO, a failure ends the child with exit(FAILURE)
WriterOpen(s, e) ==
  /\ pc[Worker(s, e)] = "open"
  /\ ~OpenBlocks(e)
  /\ IF OpenWriteOk(e)
     THEN /\ fd' = [fd EXCEPT ![Worker(s, e)] = dir[e]]
          /\ pc' = [p \in Procs |->
                      IF p = Worker(s, e) THEN "write"
                      ELSE IF Kind(p) = "reader" /\ pc[p] = "opening" /\ fd[p] = dir[e]
                           THEN "drain"
                      ELSE pc[p]]
     ELSE /\ pc' = [pc EXCEPT ![Worker(s, e)] = "enxio"]
          /\ UNCHANGED fd
  /\ missed' = IF dir[e] = NoInode \/ Readers(dir[e]) = {}
               THEN missed \cup {<<s, sent[s], e>>}
               ELSE missed
  /\ UNCHANGED <<name, roomExists, dir, buf, reader_pid, writer_pids, todo, msg, sent,
                 out, nev, typed, mbox, log>>
  /\ UNCHANGED <<crowd, ctodo, num_writers>>
  /\ att' = AttKeep

\* line 241: one write call puts the line into the FIFO once
Written_Twice(b, rec) == Append(Append(b, rec), rec)
Written(b, rec) == Append(b, rec)

\* line 241: write(fd_target, msg, msg_len); with no reader left on the FIFO the
\* write raises SIGPIPE, whose default action ends the child
WriterWrite(s, e) ==
  /\ pc[Worker(s, e)] = "write"
  /\ IF Readers(fd[Worker(s, e)]) = {}
     THEN /\ fd' = [fd EXCEPT ![Worker(s, e)] = NoInode]
          /\ buf' = Released(buf, fd')
          /\ pc' = [pc EXCEPT ![Worker(s, e)] = "sigpipe"]
     ELSE /\ buf' = [buf EXCEPT ![fd[Worker(s, e)]] =
                       Written(@, [line |-> msg[s], from |-> s, seq |-> sent[s]])]
          /\ pc' = [pc EXCEPT ![Worker(s, e)] = "close"]
          /\ UNCHANGED fd
  /\ UNCHANGED <<name, roomExists, dir, reader_pid, writer_pids, todo, msg, sent, out,
                 nev, missed, typed, mbox, log>>
  /\ UNCHANGED <<crowd, ctodo, num_writers>>
  /\ att' = AttKeep

\* lines 242-243: close, exit(0)
WriterClose(s, e) ==
  /\ pc[Worker(s, e)] = "close"
  /\ fd' = [fd EXCEPT ![Worker(s, e)] = NoInode]
  /\ buf' = Released(buf, fd')
  /\ pc' = [pc EXCEPT ![Worker(s, e)] = "done"]
  /\ UNCHANGED <<name, roomExists, dir, reader_pid, writer_pids, todo, msg, sent, out,
                 nev, missed, typed, mbox, log>>
  /\ UNCHANGED <<crowd, ctodo, num_writers>>
  /\ att' = AttKeep

(* -------------------------- the reader child -------------------------- *)
\* lines 128-132: the blocking read-open of the session's own path; the reader
\* counts as a reader of the FIFO from here on, and the open returns at once when
\* a writer holds the FIFO open; a missing path ends the reader with exit(0)
ReaderOpen(s) ==
  /\ pc[Reader(s)] = "open"
  /\ IF dir[name[s]] = NoInode
     THEN /\ pc' = [pc EXCEPT ![Reader(s)] = "dead"]
          /\ UNCHANGED fd
     ELSE /\ fd' = [fd EXCEPT ![Reader(s)] = dir[name[s]]]
          /\ pc' = [pc EXCEPT ![Reader(s)] =
                      IF Writers(dir[name[s]]) # {} THEN "drain" ELSE "opening"]
  /\ UNCHANGED <<name, roomExists, dir, buf, reader_pid, writer_pids, todo, msg, sent,
                 out, nev, missed, typed, mbox, log>>
  /\ UNCHANGED <<crowd, ctodo, num_writers>>
  /\ att' = AttKeep

\* lines 138-149: read returns the buffered bytes, which are rendered
ReaderRead(s) ==
  /\ pc[Reader(s)] = "drain"
  /\ buf[fd[Reader(s)]] # <<>>
  /\ out' = [out EXCEPT ![s] = @ \o buf[fd[Reader(s)]]]
  /\ buf' = [buf EXCEPT ![fd[Reader(s)]] = <<>>]
  /\ UNCHANGED <<pc, fd, name, roomExists, dir, reader_pid, writer_pids, todo, msg,
                 sent, nev, missed, typed, mbox, log>>
  /\ UNCHANGED <<crowd, ctodo, num_writers>>
  /\ att' = AttKeep

\* line 138: read returns 0, no bytes buffered and no writer left: the loop ends
ReaderEOF(s) ==
  /\ pc[Reader(s)] = "drain"
  /\ buf[fd[Reader(s)]] = <<>>
  /\ Writers(fd[Reader(s)]) = {}
  /\ pc' = [pc EXCEPT ![Reader(s)] = "eof"]
  /\ UNCHANGED <<fd, name, roomExists, dir, buf, reader_pid, writer_pids, todo, msg,
                 sent, out, nev, missed, typed, mbox, log>>
  /\ UNCHANGED <<crowd, ctodo, num_writers>>
  /\ att' = AttKeep

\* lines 126 and 150-151: after the close the while (1) loop goes back to the open
AfterEOF_Exit == "dead"
AfterEOF == "open"

\* lines 150-151: close, and around the loop to the next open
ReaderClose(s) ==
  /\ pc[Reader(s)] = "eof"
  /\ fd' = [fd EXCEPT ![Reader(s)] = NoInode]
  /\ buf' = Released(buf, fd')
  /\ pc' = [pc EXCEPT ![Reader(s)] = AfterEOF]
  /\ log' = IF out[s] # <<>>
            THEN log \cup {<<"closed after lines", s, Len(out[s])>>}
            ELSE log
  /\ UNCHANGED <<name, roomExists, dir, reader_pid, writer_pids, todo, msg, sent, out,
                 nev, missed, typed, mbox>>
  /\ UNCHANGED <<crowd, ctodo, num_writers>>
  /\ att' = AttKeep

(* ------------------------------ cleanup ------------------------------- *)
\* The end states of exit(0) in each kind of process.
Exited_UnlinkChecked(p) ==
  IF Kind(p) # "main" THEN "dead"
  ELSE IF <<"unlink of no entry", p>> \in log THEN "exit1" ELSE "exit0"
Exited(p) == IF Kind(p) = "main" THEN "exit0" ELSE "dead"

\* lines 53-54: if (reader_pid > 0) kill(reader_pid, SIGTERM); the reader, which
\* inherited the handlers, runs cleanup next
KillsReader(p) == ReaderPidOf(p) > 0

CleanupKill(p) ==
  /\ pc[p] = "cl_kill"
  /\ pc' = [q \in Procs |->
              IF q = p THEN "cl_unlink"
              ELSE IF KillsReader(p) /\ q = Reader(ReaderPidOf(p)) /\ pc[q] \in ReaderRunning
                   THEN "cl_kill"
              ELSE pc[q]]
  /\ UNCHANGED <<fd, name, roomExists, dir, buf, reader_pid, writer_pids, todo, msg,
                 sent, out, nev, missed, typed, mbox, log>>
  /\ UNCHANGED <<crowd, ctodo, num_writers>>
  /\ att' = AttKeep

\* line 57: unlink(user_pipe); its result is not looked at, so a path that names
\* nothing (ENOENT) changes nothing and is no error
CleanupUnlink(p) ==
  /\ pc[p] = "cl_unlink"
  /\ dir' = [dir EXCEPT ![name[SessionOf(p)]] = NoInode]
  /\ pc' = [pc EXCEPT ![p] = "cl_exit"]
  /\ log' = IF Kind(p) = "main" /\ dir[name[SessionOf(p)]] = NoInode
            THEN log \cup {<<"unlink of no entry", p>>}
            ELSE log
  /\ UNCHANGED <<fd, name, roomExists, buf, reader_pid, writer_pids, todo, msg, sent,
                 out, nev, missed, typed, mbox>>
  /\ UNCHANGED <<crowd, ctodo, num_writers>>
  /\ att' = AttKeep

\* line 58: exit(0), which closes the descriptors of the process
CleanupExit(p) ==
  /\ pc[p] = "cl_exit"
  /\ fd' = [fd EXCEPT ![p] = NoInode]
  /\ buf' = Released(buf, fd')
  /\ pc' = [pc EXCEPT ![p] = Exited(p)]
  /\ UNCHANGED <<name, roomExists, dir, reader_pid, writer_pids, todo, msg, sent, out,
                 nev, missed, typed, mbox, log>>
  /\ UNCHANGED <<crowd, ctodo, num_writers>>
  /\ att' = AttKeep

\* lines 103-104: SIGINT or SIGTERM reaches a process that has the handlers (the
\* children inherit them): it runs cleanup from its first line
Signal(p) ==
  /\ Alive(p)
  /\ nev < MaxEvents
  /\ nev' = nev + 1
  /\ pc' = [pc EXCEPT ![p] = "cl_kill"]
  /\ log' = IF Kind(p) = "main" /\ pc[p] \in CleanupPcs
            THEN log \cup {<<"signal in cleanup", p>>}
            ELSE log
  /\ UNCHANGED <<fd, name, roomExists, dir, buf, reader_pid, writer_pids, todo, msg,
                 sent, out, missed, typed, mbox>>
  /\ UNCHANGED <<crowd, ctodo, num_writers>>
  /\ att' = AttKeep

(* -------------------------------- Next -------------------------------- *)
SessionStep(s) ==
  \/ Usage(s)
  \/ Mkdir(s)
  \/ Mkfifo(s)
  \/ ForkReader(s)
  \/ ForkReaderFails(s)
  \/ StorePid(s)
  \/ FgetsEOF(s)
  \/ FgetsLine(s)
  \/ Opendir(s)
  \/ OpendirFails(s)
  \/ Readdir(s)
  \/ ReaddirCrowd(s)
  \/ ForkWriterFails(s)
  \/ Closedir(s)
  \/ Waitpid(s)
  \/ NextLine(s)
  \/ ReaderOpen(s)
  \/ ReaderRead(s)
  \/ ReaderEOF(s)
  \/ ReaderClose(s)

WriterStep(s, e) ==
  \/ WriterOpen(s, e)
  \/ WriterWrite(s, e)
  \/ WriterClose(s, e)

CleanupStep(p) ==
  \/ CleanupKill(p)
  \/ CleanupUnlink(p)
  \/ CleanupExit(p)

Next ==
  \/ \E s \in Sessions : SessionStep(s)
  \/ \E s \in Sessions, e \in UserNames : WriterStep(s, e)
  \/ \E p \in Procs : CleanupStep(p)
  \/ \E p \in Procs : Signal(p)
  \/ JoinCrowd

Spec == Init /\ [][Next]_vars

\* The steps the processes take by themselves; the scheduler runs every process
\* that can run. What is left out is what the environment decides: sessions
\* starting, input arriving, signals and failing system calls.
ProgramStep ==
  \/ \E s \in Sessions :
        \/ Mkfifo(s) \/ ForkReader(s) \/ StorePid(s)
        \/ Opendir(s) \/ Readdir(s) \/ ReaddirCrowd(s) \/ Closedir(s) \/ Waitpid(s) \/ NextLine(s)
        \/ ReaderOpen(s) \/ ReaderRead(s) \/ ReaderEOF(s) \/ ReaderClose(s)
  \/ \E s \in Sessions, e \in UserNames : WriterStep(s, e)
  \/ \E p \in Procs : CleanupStep(p)

FairSpec == Spec /\ WF_vars(ProgramStep)

(* ====================================================================== *)
(*                               Properties                               *)
(* ====================================================================== *)

\* The bytes a reader has read or will read next: its stream so far, then what is
\* buffered in the FIFO it holds open.
Stream(b) ==
  out[b] \o (IF fd[Reader(b)] # NoInode THEN buf[fd[Reader(b)]] ELSE <<>>)

\* The positions in a stream of the lines of broadcast number k of session s.
CopiesOf(s, k, stream) ==
  {i \in 1 .. Len(stream) : stream[i].from = s /\ stream[i].seq = k}

\* The broadcast a session started last has been carried out to its end.
BroadcastDone(s) == sent[s] > 0 /\ pc[Main(s)] = "prompt"

\* The writer child of s for the entry e was forked and ran to its own end: it
\* was not cut short by a signal.
Ran(s, e) == pc[Worker(s, e)] \in {"enxio", "sigpipe", "done"}

C2_NoRetroactiveDelivery ==
  \A m \in missed : \A b \in Sessions :
    name[b] = m[3] => CopiesOf(m[1], m[2], Stream(b)) = {}

\* A delivery was missed, and a reader of the recipient is attached afterwards.
C2_Witness ==
  \E m \in missed : \E b \in Sessions :
    /\ name[b] = m[3]
    /\ pc[Reader(b)] \in {"opening", "drain"}
    /\ pc[Worker(m[1], m[3])] = "enxio"

\* C3: no writer child is ever forked for the sender's own entry, and no line of a
\* session's broadcasts is in its own mailbox or in the stream of its own reader.
C3_NothingToSelf ==
  \A s \in Sessions :
    Started(s) /\ name[s] \in UserNames =>
      /\ pc[Worker(s, name[s])] = "none"
      /\ \A i \in 1 .. Len(Stream(s)) : Stream(s)[i].from # s
      /\ \A n \in {mbox[s], dir[name[s]]} \ {NoInode} :
           \A i \in 1 .. Len(buf[n]) : buf[n][i].from # s

\* A broadcast is over that delivered to another mailbox while the sender's own
\* entry was in the directory, and the sender's reader is attached and has read
\* nothing.
C3_Witness ==
  \E s \in Sessions, e \in UserNames :
    /\ BroadcastDone(s)
    /\ pc[Worker(s, e)] = "done"
    /\ dir[name[s]] # NoInode
    /\ pc[Reader(s)] = "opening"
    /\ out[s] = <<>>

\* A session is carrying out a broadcast.
InBroadcast(s) == pc[Main(s)] \in {"opendir", "readdir", "wait"}

\* Nobody is in the middle of a broadcast and no writer child is running.
Quiet ==
  /\ \A s \in Sessions : ~InBroadcast(s)
  /\ \A s \in Sessions, e \in UserNames : pc[Worker(s, e)] \in WorkerGone

\* C4: every broadcast terminates, whatever entries the directory holds and
\* whatever the readers do: again and again no session is in a broadcast and no
\* writer child is running, and a broadcast the environment does not cut short
\* (a signal, a failing opendir) is left for the prompt whatever became of its
\* writer children.
C4_BroadcastTerminates ==
  /\ []<>Quiet
  /\ [][\A s \in Sessions :
          (InBroadcast(s) /\ ~InBroadcast(s)' /\ nev' = nev) => pc'[Main(s)] = "prompt"]_vars

\* A delivery of the broadcast a session started last found no reader attached.
FailedDelivery(s) == \E e \in UserNames : <<s, sent[s], e>> \in missed

\* C5: in a broadcast in which a delivery failed because a mailbox had no reader,
\* every recipient whose reader stayed attached, and whose writer child ran,
\* still has the line exactly once and unmodified, in whatever order readdir
\* returned the entries.
C5_FailedDeliveryIsolated ==
  \A s \in Sessions, b \in Sessions :
    (BroadcastDone(s) /\ FailedDelivery(s) /\ b \in att[s] /\ name[b] # name[s]
       /\ Ran(s, name[b]))
    => LET m == IF typed[s] = "hello\n" THEN "hello" ELSE typed[s]
           expected == "[" \o RoomName \o "] " \o name[s] \o ": " \o m \o "\n"
       IN /\ Cardinality(CopiesOf(s, sent[s], Stream(b))) = 1
          /\ \A i \in 1 .. Len(Stream(b)) :
               Stream(b)[i].from = s => Stream(b)[i].line = expected

\* One broadcast met a mailbox without a reader and a mailbox with one, and the
\* attached reader has read the line.
C5_Witness ==
  \E s \in Sessions, b \in Sessions, e \in UserNames :
    /\ BroadcastDone(s) /\ b \in att[s] /\ name[b] # name[s]
    /\ pc[Worker(s, e)] = "enxio" /\ <<s, sent[s], e>> \in missed
    /\ pc[Worker(s, name[b])] = "done"
    /\ Len(out[b]) = 1 /\ out[b][1].from = s

\* C6: once the main process of a session has left through cleanup, the mailbox
\* entry of the session is gone from the directory and its reader is not left
\* attached to the FIFO: the reader has ended, is ending in its own handler, or
\* has yet to try the open.
C6_CleanupLeavesNothing ==
  \A s \in Sessions :
    pc[Main(s)] = "exit0" =>
      /\ dir[name[s]] = NoInode \/ dir[name[s]] # mbox[s]
      /\ pc[Reader(s)] \notin {"opening", "drain", "eof"}

\* C7: the join steps done when the room and the mailbox both exist already
\* report no error, go on to the next step and leave the directory as it was,
\* with its one entry of that name.
C7_JoinIdempotent ==
  [][\A s \in Sessions :
       /\ (pc[Main(s)] = "init" /\ name'[s] # "" /\ roomExists /\ nev' = nev + 1)
            => (pc'[Main(s)] = "mkfifo" /\ roomExists')
       /\ (pc[Main(s)] = "mkfifo" /\ pc'[Main(s)] # "mkfifo" /\ dir[name[s]] # NoInode
             /\ nev' = nev)
            => (pc'[Main(s)] = "fork" /\ dir' = dir /\ dir'[name[s]] # NoInode)]_vars

\* A session has joined under a name whose mailbox another session had created.
C7_Witness ==
  \E s \in Sessions :
    /\ pc[Main(s)] = "fork"
    /\ mbox[s] \notin {NoInode, s}
    /\ dir[name[s]] = mbox[s]

\* The main process of a session is between its mkfifo and its exit.
LiveMain(s) == pc[Main(s)] \in {"mkfifo"} \cup HandlersInstalled

\* No two live sessions use the same name.
LiveNamesDistinct ==
  \A a \in Sessions, b \in Sessions :
    (a # b /\ LiveMain(a) /\ LiveMain(b)) => name[a] # name[b]

\* C8: while the live sessions have different names, the mailbox entry a live
\* session created is removed only by the unlink of a process of that session.
C8_OnlyOwnerRemoves ==
  [][\A n \in UserNames :
       (dir[n] # NoInode /\ dir'[n] = NoInode /\ LiveMain(dir[n]) /\ LiveNamesDistinct)
       => \E p \in Procs :
            SessionOf(p) = dir[n] /\ pc[p] = "cl_unlink" /\ pc'[p] = "cl_exit"]_vars

C10_KillBeforeUnlink ==
  [][\A s \in Sessions :
       (pc[Main(s)] = "cl_unlink" /\ pc'[Main(s)] = "cl_exit")
       => pc[Reader(s)] \notin ReaderRunning]_vars
\* C11: cleanup is no error path and may run again: a main process in cleanup
\* ends with status 0 and no other, a signal that arrives during cleanup only
\* starts cleanup again, and the unlink of a mailbox path that names nothing
\* leaves the room directory as it was.
C11_CleanupIdempotent ==
  [][\A s \in Sessions :
       /\ pc[Main(s)] \in CleanupPcs => pc'[Main(s)] \in CleanupPcs \cup {"exit0"}
       /\ (pc[Main(s)] = "cl_unlink" /\ pc'[Main(s)] = "cl_exit"
             /\ dir[name[s]] = NoInode) => dir' = dir]_vars

\* A main process has exited with status 0 after a signal reached it in the
\* middle of cleanup and after its unlink found the mailbox gone already.
C11_Witness ==
  \E s \in Sessions :
    /\ pc[Main(s)] = "exit0"
    /\ <<"signal in cleanup", Main(s)>> \in log
    /\ <<"unlink of no entry", Main(s)>> \in log
\* C12: a join that fails at setup (too few arguments, or mkdir or mkfifo failing
\* for a reason other than the name existing already) ends the main process with
\* status 1, with no reader forked and no line ever accepted; and the main process
\* leaves the setup with status 1 only after such a failure, never because the
\* room or the mailbox existed.
C12_SetupFailureIsFatal ==
  [][\A s \in Sessions :
       LET left == pc[Main(s)] \in {"init", "mkfifo"} /\ pc'[Main(s)] # pc[Main(s)]
           usage == pc[Main(s)] = "init" /\ name'[s] = ""
           mkdirFailed == pc[Main(s)] = "init" /\ name'[s] # "" /\ nev' = nev + 2
           mkfifoFailed == pc[Main(s)] = "mkfifo" /\ nev' = nev + 1
       IN /\ (left /\ (usage \/ mkdirFailed \/ mkfifoFailed))
               => /\ pc'[Main(s)] = "exit1"
                  /\ pc'[Reader(s)] = "none"
                  /\ reader_pid'[s] = -1
                  /\ sent'[s] = 0
          /\ (left /\ pc'[Main(s)] = "exit1") => (usage \/ mkdirFailed \/ mkfifoFailed)
          /\ pc'[Main(s)] = "exit1" => (pc'[Reader(s)] = "none" /\ sent'[s] = 0)]_vars

\* One session has ended on the usage error and another on a creation call that
\* failed for a reason other than the name existing; neither has a reader.
C12_Witness ==
  \E s \in Sessions, r \in Sessions :
    /\ pc[Main(s)] = "exit1" /\ name[s] = ""
    /\ pc[Main(r)] = "exit1" /\ name[r] # "" /\ mbox[r] = NoInode
    /\ pc[Reader(s)] = "none" /\ pc[Reader(r)] = "none"
\* The main process of a session is past the fork of its reader and has not
\* started cleanup.
InSession(s) == pc[Main(s)] \in {"store", "prompt", "opendir", "readdir", "wait"}

\* No other session has used the name of this one.
UniqueName(s) == \A r \in Sessions \ {s} : name[r] # name[s]

\* C13: for a session whose name no other session uses, the reader and the main
\* process live and end together: no step of the program (a step that is not the
\* environment signalling the reader itself) ends the reader while the main
\* process stays in the session, and the main process never exits leaving its
\* reader running.
C13_ReaderAndInputLoopTogether ==
  [][\A s \in Sessions :
       UniqueName(s) =>
         /\ (InSession(s) /\ InSession(s)' /\ nev' = nev /\ pc[Reader(s)] \in ReaderRunning)
              => pc'[Reader(s)] \in ReaderRunning
         /\ (pc[Main(s)] \notin MainExited /\ pc'[Main(s)] \in MainExited)
              => pc'[Reader(s)] \notin ReaderRunning]_vars
\* C14: no step of a reader process changes the room directory: whenever a
\* reader moves, also in reaction to the termination request of cleanup, the
\* directory entries are what they were.
C14_ReaderLeavesDirectoryAlone ==
  [][\A s \in Sessions : pc'[Reader(s)] # pc[Reader(s)] => dir' = dir]_vars
\* C15: the reader alternates between waiting in the open and draining: after
\* end of stream it closes and goes back to the open of its mailbox, whatever it
\* has read before, and it ends on its own (not in the signal handler) only when
\* that open finds no mailbox.
C15_ReaderReopens ==
  [][\A s \in Sessions :
       /\ (pc[Reader(s)] = "eof" /\ pc'[Reader(s)] \notin {"eof", "cl_kill"})
            => (pc'[Reader(s)] = "open" /\ fd'[Reader(s)] = NoInode)
       /\ (pc[Reader(s)] \in ReaderRunning /\ pc'[Reader(s)] = "dead")
            => (pc[Reader(s)] = "open" /\ dir[name[s]] = NoInode)]_vars

\* A reader saw end of stream after the line of a first broadcast, opened its
\* mailbox again and has read the line of a second broadcast.
C15_Witness ==
  \E s \in Sessions, b \in Sessions :
    /\ <<"closed after lines", b, 1>> \in log
    /\ Len(out[b]) = 2
    /\ out[b][1].from = s /\ out[b][1].seq = 1
    /\ out[b][2].from = s /\ out[b][2].seq = 2
\* The writer child of s for the entry e discarded the line: it ended after its
\* open (exit(FAILURE), line 238) holding nothing, and no reader of that name
\* has a line of the broadcast.
Discarded(s, e) ==
  /\ pc[Worker(s, e)] = "enxio"
  /\ fd[Worker(s, e)] = NoInode
  /\ \A b \in Sessions : name[b] = e => CopiesOf(s, sent[s], Stream(b)) = {}

\* The recipients whose readers stayed attached through the broadcast of s, and
\* whose writer children ran, have its line exactly once.
AttachedServed(s) ==
  \A b \in att[s] :
    (name[b] # name[s] /\ Ran(s, name[b])) => Cardinality(CopiesOf(s, sent[s], Stream(b))) = 1

Listed(s, e) == <<"not listed", s, sent[s], e>> \notin log

\* The steps a writer child can take: one open, then at most one write, then the
\* close; or the end in the signal handler.
WorkerMoves ==
  {<<"open", "write">>, <<"open", "enxio">>, <<"write", "close">>, <<"write", "sigpipe">>,
   <<"close", "done">>, <<"cl_kill", "cl_unlink">>, <<"cl_unlink", "cl_exit">>,
   <<"cl_exit", "dead">>}
  \cup {<<q, "cl_kill">> : q \in WorkerRunning \cup CleanupPcs}

C18_PidTableNeverOverflows ==
  \A s \in Sessions : num_writers[s] <= WriterPidsCapacity
\* C19: whenever the main process of a session that had its mailbox has
\* terminated (after end of input, a signal, opendir failing or the fork of the
\* reader failing) and no other session uses its name, the room directory holds
\* no entry of that name.
C19_EveryExitRemovesMailbox ==
  \A s \in Sessions :
    (pc[Main(s)] \in MainExited /\ mbox[s] # NoInode /\ UniqueName(s))
      => dir[name[s]] = NoInode
\* C20: a writer child touches nothing but the mailbox it was forked for: no
\* step of a writer child, also after a signal reached it, changes the room
\* directory or ends the reader of its session while the main process of the
\* session is in its input loop.
C20_WriterChildTouchesOnlyItsTarget ==
  [][\A s \in Sessions, e \in UserNames :
       (/\ pc[Worker(s, e)] \in WorkerRunning \cup CleanupPcs
        /\ pc'[Worker(s, e)] # pc[Worker(s, e)]
        /\ InSession(s) /\ InSession(s)')
       => /\ dir' = dir
          /\ pc[Reader(s)] \in ReaderRunning => pc'[Reader(s)] \in ReaderRunning]_vars
====
